---- MODULE Spec2Model ----
(***************************************************************************)
(* py_maze: a maze generator (recursive backtracking on a doubled grid)    *)
(* and the interactive game played on the generated grid.                  *)
(*                                                                         *)
(* A grid is a sequence of rows, a row a sequence of BOOLEAN (TRUE = wall, *)
(* FALSE = path).  The source indexes from 0 and uses Python's negative    *)
(* indices; At/Put translate a Python index into the 1-based index of a    *)
(* TLA+ sequence.  A position is written <<x, y>> (column, row).           *)
(***************************************************************************)
EXTENDS Integers, Sequences, FiniteSets, TLC

VARIABLES pc, generator, stack, visited, maze_grid, game, last, screen, work, ids, writes

vars == <<pc, generator, stack, visited, maze_grid, game, last, screen, work, ids, writes>>

(***************************************************************************)
(* Bounds of the model.                                                    *)
(***************************************************************************)
\* widths and heights (in cells) the generator is constructed with
MaxWidth == 3
MaxHeight == 3
\* rows and columns of the hand-built grids a game is constructed from
MaxRows == 2
MaxCols == 3
\* how far below 1 the widths and heights of a generator of any size go
MaxBelow == 2
\* widths and heights of the generator whose grid a caller goes on writing
MaxCopySize == 2
\* writes to a grid, and further generate() calls, of such a caller
MaxWrites == 1

(***************************************************************************)
(* Python lists.                                                           *)
(***************************************************************************)
\* i is a valid index of a list of length n (negative indices count from
\* the end); any other index raises IndexError
ValidIndex(n, i) == -n <= i /\ i < n

\* the 1-based position a valid Python index i denotes in a list of length n
PyIndex(n, i) == IF i < 0 THEN n + i + 1 ELSE i + 1

\* grid[y][x] does not raise
CanIndex(g, x, y) ==
    /\ ValidIndex(Len(g), y)
    /\ ValidIndex(Len(g[PyIndex(Len(g), y)]), x)

\* grid[y][x]
At(g, x, y) ==
    LET row == g[PyIndex(Len(g), y)]
    IN  row[PyIndex(Len(row), x)]

\* grid[y][x] = v
Put(g, x, y, v) ==
    LET r == PyIndex(Len(g), y)
        c == PyIndex(Len(g[r]), x)
    IN  [g EXCEPT ![r][c] = v]

(***************************************************************************)
(* MazeGenerator                                                           *)
(***************************************************************************)
\* MazeGenerator.__init__ without the closing border row and column
MazeGenerator_NoBorder(width, height) ==
    [ width  |-> width,
      height |-> height,
      grid   |-> [r \in 1 .. (height * 2) |->
                     [c \in 1 .. (width * 2) |-> TRUE]] ]

\* MazeGenerator.__init__: the all-walls grid of (2*height+1) rows of
\* (2*width+1) columns
MazeGenerator(width, height) ==
    [ width  |-> width,
      height |-> height,
      grid   |-> [r \in 1 .. (height * 2 + 1) |->
                     [c \in 1 .. (width * 2 + 1) |-> TRUE]] ]

\* the direction list of the neighbour search: Up, Right, Down, Left
Directions == { <<0, -2>>, <<2, 0>>, <<0, 2>>, <<-2, 0>> }

\* Neighbors without the visited test
Neighbors_IgnoreVisited(g, current_x, current_y, vis) ==
    { <<current_x + d[1], current_y + d[2], d[1], d[2]>> : d \in
        { d \in Directions :
            LET nx == current_x + d[1]
                ny == current_y + d[2]
            IN  /\ 0 < nx /\ nx < Len(g[1])
                /\ 0 < ny /\ ny < Len(g) } }

\* the unvisited neighbours of the current cell, two steps away, each with
\* the direction it was found in: <<nx, ny, dx, dy>>
Neighbors(g, current_x, current_y, vis) ==
    { <<current_x + d[1], current_y + d[2], d[1], d[2]>> : d \in
        { d \in Directions :
            LET nx == current_x + d[1]
                ny == current_y + d[2]
            IN  /\ 0 < nx /\ nx < Len(g[1])
                /\ 0 < ny /\ ny < Len(g)
                /\ <<nx, ny>> \notin vis } }

\* CarveTo that also opens the joint beside the wall
CarveTo_Joint(g, current_x, current_y, n) ==
    LET wall_x == current_x + n[3] \div 2
        wall_y == current_y + n[4] \div 2
    IN  Put(Put(Put(g, wall_x, wall_y, FALSE), n[1], n[2], FALSE),
            wall_x + n[4] \div 2, wall_y + n[3] \div 2, FALSE)

\* CarveTo with the wall taken a whole step away: the wall between the two
\* cells is left standing
CarveTo_NoWall(g, current_x, current_y, n) ==
    LET wall_x == current_x + n[3]
        wall_y == current_y + n[4]
    IN  Put(Put(g, wall_x, wall_y, FALSE), n[1], n[2], FALSE)

\* the two writes that carve from the current cell to the chosen neighbour
CarveTo(g, current_x, current_y, n) ==
    LET nx == n[1]
        ny == n[2]
        dx == n[3]
        dy == n[4]
        wall_x == current_x + dx \div 2
        wall_y == current_y + dy \div 2
    IN  Put(Put(g, wall_x, wall_y, FALSE), nx, ny, FALSE)

\* CarveOpenings without the entrance
CarveOpenings_NoEntrance(g) == Put(g, -2, -1, FALSE)

\* CarveOpenings with the indices of the exit swapped: grid[-2][-1]
CarveOpenings_Swapped(g) == Put(Put(g, 1, 0, FALSE), -1, -2, FALSE)

\* the entrance at the top and the exit at the bottom
CarveOpenings(g) == Put(Put(g, 1, 0, FALSE), -2, -1, FALSE)

(***************************************************************************)
(* What is printed.  The screen is the sequence of the print calls since   *)
(* it was last cleared; each is a sequence of pieces of text, a glyph of   *)
(* the maze being one piece.                                               *)
(***************************************************************************)
\* one row of the grid as glyphs: '*' if cell else ' '
RowGlyphs(row) == [c \in 1 .. Len(row) |-> IF row[c] THEN "*" ELSE " "]

\* '\n'.join(lines)
RECURSIVE JoinLines(_)
JoinLines(lines) ==
    IF lines = <<>> THEN <<>>
    ELSE IF Len(lines) = 1 THEN lines[1]
    ELSE lines[1] \o <<"\n">> \o JoinLines(Tail(lines))

\* MazeGenerator.to_string
to_string(grid) == JoinLines([r \in 1 .. Len(grid) |-> RowGlyphs(grid[r])])

\* what main() prints around generate(): the maze and the prompt
MainDisplay(grid) ==
    << <<"Generating maze...">>, <<"\nstart">>, to_string(grid),
       <<"end\n">>, <<"Would you like to play this maze? (y/n): ">> >>

(***************************************************************************)
(* Which lists are the same object.  Every row of a grid is a list of its  *)
(* own; ids holds, for the generator's grid, for main's maze_grid and for  *)
(* the game's maze, the identity of each of its rows.  A write to a row    *)
(* shows in every grid that holds that row.                                *)
(***************************************************************************)
\* the rows of a grid built by a list comprehension: all new
NewRows(grid) == [r \in 1 .. Len(grid) |-> r]

\* the copy that holds the very rows of the grid it was made from
CopyRows_SameRows(rows) == rows

\* [row[:] for row in maze_grid]: a new row for every row
CopyRows(rows) == [r \in 1 .. Len(rows) |-> Len(rows) + r]

\* the content of a grid with the given rows after another grid, holding
\* the rows written, has become written
Shared(grid, rows, written, written_rows) ==
    [r \in 1 .. Len(grid) |->
        IF \E k \in 1 .. Len(written_rows) : written_rows[k] = rows[r]
        THEN written[CHOOSE k \in 1 .. Len(written_rows) :
                        written_rows[k] = rows[r]]
        ELSE grid[r]]

\* the cells of a generator of the given size: the odd coordinates
Cells(width, height) ==
    { p \in (1 .. (2 * width)) \X (1 .. (2 * height)) :
        p[1] % 2 = 1 /\ p[2] % 2 = 1 }

\* the count of the work of generate(): the iterations of its loop, and
\* for each cell how often it was pushed on the stack and popped off it
NoWork(width, height) ==
    [ iterations |-> 0,
      pushed |-> [c \in Cells(width, height) |-> 0],
      popped |-> [c \in Cells(width, height) |-> 0] ]

Pushed(w, cell) == [w EXCEPT !.pushed[cell] = @ + 1]

Popped(w, cell) == [w EXCEPT !.popped[cell] = @ + 1]

Iterated(w) == [w EXCEPT !.iterations = @ + 1]

NoGame ==
    [ maze |-> <<>>, height |-> 0, width |-> 0,
      player_x |-> 0, player_y |-> 0, end_x |-> 0, end_y |-> 0 ]

NoStep == [ key |-> "", moved |-> FALSE, ret |-> FALSE, checked |-> FALSE ]

\* the generator as constructed, generate() not yet called
Init ==
    /\ \E width \in 1 .. MaxWidth, height \in 1 .. MaxHeight :
           generator = MazeGenerator(width, height)
    /\ pc = "generate"
    /\ stack = <<>>
    /\ visited = {}
    /\ maze_grid = <<>>
    /\ game = NoGame
    /\ last = NoStep
    /\ screen = << <<"Generating maze...">> >>
    /\ work = NoWork(generator.width, generator.height)
    /\ ids = [ grid |-> NewRows(generator.grid), maze_grid |-> <<>>,
             maze |-> <<>> ]
    /\ writes = 0

\* self.grid has become newgrid by writes to its rows: the writes show in
\* maze_grid and in the game's maze as far as they hold those rows
WriteGrid(newgrid) ==
    /\ generator' = [generator EXCEPT !.grid = newgrid]
    /\ maze_grid' = Shared(maze_grid, ids.maze_grid, newgrid, ids.grid)
    /\ game' = IF game = NoGame THEN game
               ELSE [game EXCEPT
                       !.maze = Shared(@, ids.maze, newgrid, ids.grid)]

\* GenerateStart that returns the grid as it is when it has no cell (1,1)
GenerateStart_ReturnsSmallGrid ==
    /\ pc = "generate"
    /\ IF CanIndex(generator.grid, 1, 1)
       THEN /\ WriteGrid(Put(generator.grid, 1, 1, FALSE))
            /\ stack' = << <<1, 1>> >>
            /\ visited' = { <<1, 1>> }
            /\ pc' = "loop"
       ELSE /\ maze_grid' = generator.grid
            /\ pc' = "prompt"
            /\ UNCHANGED <<generator, stack, visited, game>>
    /\ UNCHANGED <<last, writes>>
    /\ screen' = IF pc' = "prompt" THEN MainDisplay(maze_grid') ELSE screen
    /\ work' = IF pc' = "loop"
               THEN Pushed(NoWork(generator.width, generator.height), <<1, 1>>)
               ELSE work
    /\ ids' = IF pc' = "prompt" THEN [ids EXCEPT !.maze_grid = ids.grid]
               ELSE ids

\* generate(), up to the loop: the start cell is carved, pushed and visited;
\* on a grid without a position (1,1) the first write raises IndexError
GenerateStart ==
    /\ pc = "generate"
    /\ IF CanIndex(generator.grid, 1, 1)
       THEN /\ WriteGrid(Put(generator.grid, 1, 1, FALSE))
            /\ stack' = << <<1, 1>> >>
            /\ visited' = { <<1, 1>> }
            /\ pc' = "loop"
       ELSE /\ pc' = "IndexError"
            /\ UNCHANGED <<generator, stack, visited, maze_grid, game>>
    /\ UNCHANGED <<last, screen, ids, writes>>
    /\ work' = IF pc' = "loop"
               THEN Pushed(NoWork(generator.width, generator.height), <<1, 1>>)
               ELSE work

\* GenerateCarve without visited.add: the neighbour is carved and pushed
\* but stays unvisited
GenerateCarve_NoMark ==
    /\ pc = "loop"
    /\ stack # <<>>
    /\ LET current == stack[Len(stack)]
       IN  \E n \in Neighbors(generator.grid, current[1], current[2], visited) :
             /\ WriteGrid(CarveTo(generator.grid, current[1], current[2], n))
             /\ stack' = Append(stack, <<n[1], n[2]>>)
    /\ UNCHANGED <<pc, visited, last, screen, ids, writes>>
    /\ work' = Iterated(Pushed(work, stack'[Len(stack')]))

\* one iteration of the loop that finds unvisited neighbours: carve to a
\* randomly chosen one and push it
GenerateCarve ==
    /\ pc = "loop"
    /\ stack # <<>>
    /\ LET current == stack[Len(stack)]
       IN  \E n \in Neighbors(generator.grid, current[1], current[2], visited) :
             /\ WriteGrid(CarveTo(generator.grid, current[1], current[2], n))
             /\ visited' = visited \cup { <<n[1], n[2]>> }
             /\ stack' = Append(stack, <<n[1], n[2]>>)
    /\ UNCHANGED <<pc, last, screen, ids, writes>>
    /\ work' = Iterated(Pushed(work, stack'[Len(stack')]))

\* one iteration of the loop that finds none: backtrack
GenerateBacktrack ==
    /\ pc = "loop"
    /\ stack # <<>>
    /\ LET current == stack[Len(stack)]
       IN  Neighbors(generator.grid, current[1], current[2], visited) = {}
    /\ stack' = SubSeq(stack, 1, Len(stack) - 1)
    /\ UNCHANGED <<pc, generator, visited, maze_grid, game, last, screen,
                 ids, writes>>
    /\ work' = Iterated(Popped(work, stack[Len(stack)]))

\* the loop has ended: the openings are carved and the grid is returned;
\* main binds maze_grid to the returned list, the generator's own
GenerateReturn ==
    /\ pc = "loop"
    /\ stack = <<>>
    /\ generator' = [generator EXCEPT !.grid = CarveOpenings(@)]
    /\ maze_grid' = generator'.grid
    /\ game' = IF game = NoGame THEN game
               ELSE [game EXCEPT
                       !.maze = Shared(@, ids.maze, generator'.grid, ids.grid)]
    /\ pc' = "prompt"
    /\ UNCHANGED <<stack, visited, last, work, writes>>
    /\ screen' = MainDisplay(maze_grid')
    /\ ids' = [ids EXCEPT !.maze_grid = ids.grid]

(***************************************************************************)
(* MazeGame                                                                *)
(***************************************************************************)
\* the scan for the start row: rows top to bottom from row y at column x;
\* the first open row, or the value player_y had before the loop
RECURSIVE ScanDown(_, _, _, _, _)
ScanDown(maze, x, y, height, default) ==
    IF y >= height THEN default
    ELSE IF ~At(maze, x, y) THEN y
    ELSE ScanDown(maze, x, y + 1, height, default)

\* ScanUp that gives up after the first row it looks at
ScanUp_OneRow(maze, x, y, default) ==
    IF y <= -1 THEN default
    ELSE IF ~At(maze, x, y) THEN y
    ELSE default

\* the scan for the end row: rows bottom to top from row y at column x;
\* the first open row, or the value end_y had before the loop
RECURSIVE ScanUp(_, _, _, _)
ScanUp(maze, x, y, default) ==
    IF y <= -1 THEN default
    ELSE IF ~At(maze, x, y) THEN y
    ELSE ScanUp(maze, x, y - 1, default)

\* MazeGame.__init__ raises IndexError: maze[0] of a grid without rows, or
\* column 1 or column width-2 of a grid that has no such column
ConstructRaises(grid) ==
    \/ ~ValidIndex(Len(grid), 0)
    \/ ~ValidIndex(Len(grid[1]), 1)
    \/ ~ValidIndex(Len(grid[1]), Len(grid[1]) - 2)

\* MazeGame.__init__ on a grid it does not raise on
MazeGame(grid) ==
    LET maze   == [r \in 1 .. Len(grid) |-> grid[r]]
        height == Len(maze)
        width  == Len(maze[1])
        player_x == 1
        end_x  == width - 2
    IN  [ maze     |-> maze,
          height   |-> height,
          width    |-> width,
          player_x |-> player_x,
          player_y |-> ScanDown(maze, player_x, 0, height, 0),
          end_x    |-> end_x,
          end_y    |-> ScanUp(maze, end_x, height - 1, height - 1) ]

\* move_player without the lower bounds: a step to -1 wraps to the last
\* column or row, as a negative Python index does
move_player_NoLowerBound(g, dx, dy) ==
    LET new_x == g.player_x + dx
        new_y == g.player_y + dy
        inside == new_x < g.width /\ new_y < g.height
    IN  IF inside /\ ~CanIndex(g.maze, new_x, new_y)
        THEN [ ret |-> FALSE, raised |-> TRUE, game |-> g ]
        ELSE IF inside /\ ~At(g.maze, new_x, new_y)
        THEN [ ret |-> TRUE, raised |-> FALSE,
               game |-> [g EXCEPT !.player_x = new_x, !.player_y = new_y] ]
        ELSE [ ret |-> FALSE, raised |-> FALSE, game |-> g ]

\* move_player with the last row out of bounds (new_y < height - 1)
move_player_OffByOne(g, dx, dy) ==
    LET new_x == g.player_x + dx
        new_y == g.player_y + dy
        inside == /\ 0 <= new_x /\ new_x < g.width
                  /\ 0 <= new_y /\ new_y < g.height - 1
    IN  IF inside /\ ~At(g.maze, new_x, new_y)
        THEN [ ret |-> TRUE, raised |-> FALSE,
               game |-> [g EXCEPT !.player_x = new_x, !.player_y = new_y] ]
        ELSE [ ret |-> FALSE, raised |-> FALSE, game |-> g ]

\* move_player without the wall test
move_player_NoWallCheck(g, dx, dy) ==
    LET new_x == g.player_x + dx
        new_y == g.player_y + dy
        inside == /\ 0 <= new_x /\ new_x < g.width
                  /\ 0 <= new_y /\ new_y < g.height
    IN  IF inside
        THEN [ ret |-> TRUE, raised |-> FALSE,
               game |-> [g EXCEPT !.player_x = new_x, !.player_y = new_y] ]
        ELSE [ ret |-> FALSE, raised |-> FALSE, game |-> g ]

\* move_player that walls up the position the player leaves
move_player_Trail(g, dx, dy) ==
    LET new_x == g.player_x + dx
        new_y == g.player_y + dy
        inside == /\ 0 <= new_x /\ new_x < g.width
                  /\ 0 <= new_y /\ new_y < g.height
    IN  IF inside /\ ~At(g.maze, new_x, new_y)
        THEN [ ret |-> TRUE, raised |-> FALSE,
               game |-> [g EXCEPT !.player_x = new_x, !.player_y = new_y,
                                  !.maze = Put(@, g.player_x, g.player_y,
                                               TRUE)] ]
        ELSE [ ret |-> FALSE, raised |-> FALSE, game |-> g ]

\* MazeGame.move_player: the value returned, the game afterwards, and
\* whether the grid lookup raised IndexError
move_player(g, dx, dy) ==
    LET new_x == g.player_x + dx
        new_y == g.player_y + dy
        inside == /\ 0 <= new_x /\ new_x < g.width
                  /\ 0 <= new_y /\ new_y < g.height
    IN  IF inside /\ ~CanIndex(g.maze, new_x, new_y)
        THEN [ ret |-> FALSE, raised |-> TRUE, game |-> g ]
        ELSE IF inside /\ ~At(g.maze, new_x, new_y)
        THEN [ ret |-> TRUE, raised |-> FALSE,
               game |-> [g EXCEPT !.player_x = new_x, !.player_y = new_y] ]
        ELSE [ ret |-> FALSE, raised |-> FALSE, game |-> g ]

\* check_win that compares the column alone
check_win_ColumnOnly(g) == g.player_x = g.end_x

\* check_win that compares the row alone
check_win_RowOnly(g) == g.player_y = g.end_y

\* MazeGame.check_win
check_win(g) == g.player_x = g.end_x /\ g.player_y = g.end_y

\* what the terminal delivers to get_key: a character, an escape sequence
\* of three characters (written ESC[A for \x1b[A), or no key at all
NoKeyHit == "<no key>"
RawInputs ==
    { "q", "Q", "w", "s", "a", "d", "x",
      "ESC[A", "ESC[B", "ESC[C", "ESC[D", "ESC[H", NoKeyHit }

\* Python's None as a key value
None == "<None>"

\* str.lower() on the inputs of the model
Lower(raw) ==
    CASE raw = "Q" -> "q"
      [] raw = "ESC[H" -> "esc[h"
      [] OTHER -> raw

\* MazeGame.get_key: the arrow sequences are named, any other input is
\* lower-cased, and None is returned when no key was hit
get_key(raw) ==
    CASE raw = NoKeyHit -> None
      [] raw = "ESC[A" -> "up"
      [] raw = "ESC[B" -> "down"
      [] raw = "ESC[D" -> "left"
      [] raw = "ESC[C" -> "right"
      [] OTHER -> Lower(raw)

\* the keys play() dispatches to move_player, and the step of each
MoveKeys == { "w", "up", "s", "down", "a", "left", "d", "right" }

KeyStep(key) ==
    CASE key \in { "w", "up" }    -> <<0, -1>>
      [] key \in { "s", "down" }  -> <<0, 1>>
      [] key \in { "a", "left" }  -> <<-1, 0>>
      [] key \in { "d", "right" } -> <<1, 0>>

\* what main() prints when the game is declined: the answer and Goodbye,
\* or Goodbye alone after an interrupt
DeclineOutputs ==
    { << <<"n">>, <<"Goodbye!">> >>, << <<"\nGoodbye!">> >> }

\* render that looks at the wall before it looks at the player
render_WallFirst(g) ==
    << <<"start">> >> \o
    [y \in 1 .. g.height |->
        [x \in 1 .. g.width |->
            IF At(g.maze, x - 1, y - 1) THEN "*"
            ELSE IF x - 1 = g.player_x /\ y - 1 = g.player_y THEN "o"
            ELSE " "]] \o
    << <<"end">>,
       <<"\nUse arrow keys or WASD to move. Press 'q' to quit.">> >>

\* MazeGame.render: the screen after clear_screen and the prints
render(g) ==
    << <<"start">> >> \o
    [y \in 1 .. g.height |->
        [x \in 1 .. g.width |->
            IF x - 1 = g.player_x /\ y - 1 = g.player_y THEN "o"
            ELSE IF At(g.maze, x - 1, y - 1) THEN "*"
            ELSE " "]] \o
    << <<"end">>,
       <<"\nUse arrow keys or WASD to move. Press 'q' to quit.">> >>

\* what play() prints when the maze is solved
WinLines ==
    << <<"\nCongratulations! You solved the maze!">>,
       <<"Press any key to exit...">> >>

\* the screen after the render and win check of one iteration of play()
AfterRender(g) == IF check_win(g) THEN render(g) \o WinLines ELSE render(g)

\* main(): the answer to the prompt is y: the game is constructed from the
\* generated grid and play() starts
MainAccept ==
    /\ pc = "prompt"
    /\ game' = MazeGame(maze_grid)
    /\ pc' = "play"
    /\ UNCHANGED <<generator, stack, visited, maze_grid, last, work, writes>>
    /\ screen' = render(game')
    /\ ids' = [ids EXCEPT !.maze = CopyRows(ids.maze_grid)]

\* main(): any other answer, or an interrupt: Goodbye
MainDecline ==
    /\ pc = "prompt"
    /\ pc' = "goodbye"
    /\ UNCHANGED <<generator, stack, visited, maze_grid, game, last, work,
                 ids, writes>>
    /\ \E out \in DeclineOutputs : screen' = screen \o out

\* MazeGame(grid) on a hand-built grid, then play()
Construct ==
    /\ pc = "construct"
    /\ IF ConstructRaises(maze_grid)
       THEN pc' = "IndexError" /\ game' = game
       ELSE pc' = "play" /\ game' = MazeGame(maze_grid)
    /\ UNCHANGED <<generator, stack, visited, maze_grid, last, work, writes>>
    /\ screen' = IF pc' = "play" THEN render(game') ELSE screen
    /\ ids' = IF pc' = "play"
               THEN [ids EXCEPT !.maze = CopyRows(ids.maze_grid)]
               ELSE ids

\* play(): the key is q: the loop is left
PlayQuit ==
    /\ pc = "play"
    /\ \E raw \in RawInputs :
         /\ get_key(raw) = "q"
         /\ last' = [ key |-> "q", moved |-> FALSE, ret |-> FALSE,
                      checked |-> FALSE ]
    /\ pc' = "quit"
    /\ UNCHANGED <<generator, stack, visited, maze_grid, game, work, ids,
                 writes>>
    /\ screen' = Append(screen, <<"\nThanks for playing!">>)

\* play(): the key is a move key: move_player, render, check_win
PlayMove ==
    /\ pc = "play"
    /\ \E raw \in RawInputs :
         LET key == get_key(raw)
         IN  /\ key \in MoveKeys
             /\ LET r == move_player(game, KeyStep(key)[1], KeyStep(key)[2])
                IN  IF r.raised
                    THEN /\ pc' = "IndexError"
                         /\ game' = game
                         /\ last' = [ key |-> key, moved |-> TRUE,
                                      ret |-> FALSE, checked |-> FALSE ]
                    ELSE /\ game' = r.game
                         /\ pc' = IF check_win(r.game) THEN "won" ELSE "play"
                         /\ last' = [ key |-> key, moved |-> TRUE,
                                      ret |-> r.ret, checked |-> TRUE ]
    /\ UNCHANGED <<generator, stack, visited, maze_grid, work, ids, writes>>
    /\ screen' = IF pc' = "IndexError" THEN screen ELSE AfterRender(game')

\* PlayIgnore without the continue: the key falls through to render and
\* check_win
PlayIgnore_FallsThrough ==
    /\ pc = "play"
    /\ \E raw \in RawInputs :
         LET key == get_key(raw)
         IN  /\ key # "q"
             /\ key \notin MoveKeys
             /\ last' = [ key |-> key, moved |-> FALSE, ret |-> FALSE,
                          checked |-> TRUE ]
    /\ pc' = IF check_win(game) THEN "won" ELSE "play"
    /\ UNCHANGED <<generator, stack, visited, maze_grid, game, work, ids,
                 writes>>
    /\ screen' = AfterRender(game)

\* play(): any other key: continue
PlayIgnore ==
    /\ pc = "play"
    /\ \E raw \in RawInputs :
         LET key == get_key(raw)
         IN  /\ key # "q"
             /\ key \notin MoveKeys
             /\ last' = [ key |-> key, moved |-> FALSE, ret |-> FALSE,
                          checked |-> FALSE ]
    /\ UNCHANGED <<pc, generator, stack, visited, maze_grid, game, screen,
                 work, ids, writes>>

\* PlayWonKey without the break: the loop goes on after the key
PlayWonKey_NoBreak ==
    /\ pc = "won"
    /\ \E raw \in RawInputs :
         last' = [ key |-> get_key(raw), moved |-> FALSE, ret |-> FALSE,
                   checked |-> FALSE ]
    /\ pc' = "play"
    /\ UNCHANGED <<generator, stack, visited, maze_grid, game, screen, work,
                 ids, writes>>

\* play(): the maze is solved: one more key is read, then the loop is left
PlayWonKey ==
    /\ pc = "won"
    /\ \E raw \in RawInputs :
         last' = [ key |-> get_key(raw), moved |-> FALSE, ret |-> FALSE,
                   checked |-> FALSE ]
    /\ pc' = "won_exit"
    /\ UNCHANGED <<generator, stack, visited, maze_grid, game, screen, work,
                 ids, writes>>

\* the states of the game loop
LoopState ==
    CASE pc = "play" -> "Playing"
      [] pc \in { "won", "won_exit" } -> "Won"
      [] pc = "quit" -> "Quit"
      [] OTHER -> "None"

Next ==
    \/ GenerateStart
    \/ GenerateCarve
    \/ GenerateBacktrack
    \/ GenerateReturn
    \/ MainAccept
    \/ MainDecline
    \/ PlayQuit
    \/ PlayMove
    \/ PlayIgnore
    \/ PlayWonKey

\* the program: a generator of any size within the bounds, generate(), and
\* the game on the generated grid
Spec == Init /\ [][Next]_vars

(***************************************************************************)
(* generate() alone.  Its loop is sequential code that nothing blocks, so  *)
(* a step that can be taken is taken.                                      *)
(***************************************************************************)
GenerateNext ==
    \/ GenerateStart
    \/ GenerateCarve
    \/ GenerateBacktrack
    \/ GenerateReturn

GenerateSpec == Init /\ [][GenerateNext]_vars /\ WF_vars(GenerateNext)

(***************************************************************************)
(* A caller that keeps the generator and the game it constructed from the  *)
(* generator's grid, and goes on writing: to a position of the generator's *)
(* grid, to a position of the game's maze, or by calling generate() again. *)
(***************************************************************************)
CopyInit ==
    /\ \E width \in 1 .. MaxCopySize, height \in 1 .. MaxCopySize :
           generator = MazeGenerator(width, height)
    /\ pc = "generate"
    /\ stack = <<>>
    /\ visited = {}
    /\ maze_grid = <<>>
    /\ game = NoGame
    /\ last = NoStep
    /\ screen = << <<"Generating maze...">> >>
    /\ work = NoWork(generator.width, generator.height)
    /\ ids = [ grid |-> NewRows(generator.grid), maze_grid |-> <<>>,
             maze |-> <<>> ]
    /\ writes = 0

\* the caller holds a generator whose generate() has returned and a game
Holding ==
    /\ pc \in { "prompt", "play" }
    /\ game # NoGame
    /\ writes < MaxWrites

\* generator.grid[y][x] = not generator.grid[y][x]
CallerWritesGrid ==
    /\ Holding
    /\ \E y \in 0 .. Len(generator.grid) - 1,
          x \in 0 .. Len(generator.grid[1]) - 1 :
         WriteGrid(Put(generator.grid, x, y, ~At(generator.grid, x, y)))
    /\ writes' = writes + 1
    /\ UNCHANGED <<pc, stack, visited, last, screen, work, ids>>

\* game.maze[y][x] = not game.maze[y][x]
CallerWritesMaze ==
    /\ Holding
    /\ \E y \in 0 .. Len(game.maze) - 1, x \in 0 .. Len(game.maze[1]) - 1 :
         LET newmaze == Put(game.maze, x, y, ~At(game.maze, x, y))
         IN  /\ game' = [game EXCEPT !.maze = newmaze]
             /\ generator' = [generator EXCEPT
                                !.grid = Shared(@, ids.grid, newmaze, ids.maze)]
             /\ maze_grid' = Shared(maze_grid, ids.maze_grid, newmaze, ids.maze)
    /\ writes' = writes + 1
    /\ UNCHANGED <<pc, stack, visited, last, screen, work, ids>>

\* generator.generate() is called again
CallerGeneratesAgain ==
    /\ Holding
    /\ pc' = "generate"
    /\ writes' = writes + 1
    /\ UNCHANGED <<generator, stack, visited, maze_grid, game, last, screen,
                 work, ids>>

CopyNext ==
    \/ GenerateStart
    \/ GenerateCarve
    \/ GenerateBacktrack
    \/ GenerateReturn
    \/ MainAccept
    \/ CallerWritesGrid
    \/ CallerWritesMaze
    \/ CallerGeneratesAgain

CopySpec == CopyInit /\ [][CopyNext]_vars

(***************************************************************************)
(* A generator of any size                                                 *)
(***************************************************************************)
\* the generator as constructed with any width and height, positive or not
AnySizeInit ==
    /\ \E width \in (1 - MaxBelow) .. MaxWidth,
          height \in (1 - MaxBelow) .. MaxHeight :
           generator = MazeGenerator(width, height)
    /\ pc = "generate"
    /\ stack = <<>>
    /\ visited = {}
    /\ maze_grid = <<>>
    /\ game = NoGame
    /\ last = NoStep
    /\ screen = << <<"Generating maze...">> >>
    /\ work = NoWork(generator.width, generator.height)
    /\ ids = [ grid |-> NewRows(generator.grid), maze_grid |-> <<>>,
             maze |-> <<>> ]
    /\ writes = 0

AnySizeSpec == AnySizeInit /\ [][Next]_vars

(***************************************************************************)
(* MazeGame on a hand-built grid                                           *)
(***************************************************************************)
NoGenerator == [ width |-> 0, height |-> 0, grid |-> <<>> ]

\* the rectangular grids within the bounds, and the grid without rows
AnyGrids ==
    { <<>> } \cup
    UNION { [1 .. rows -> [1 .. cols -> BOOLEAN]] :
              rows \in 1 .. MaxRows, cols \in 1 .. MaxCols }

GameInit ==
    /\ maze_grid \in AnyGrids
    /\ pc = "construct"
    /\ generator = NoGenerator
    /\ stack = <<>>
    /\ visited = {}
    /\ game = NoGame
    /\ last = NoStep
    /\ screen = <<>>
    /\ work = NoWork(0, 0)
    /\ ids = [ grid |-> <<>>, maze_grid |-> NewRows(maze_grid),
             maze |-> <<>> ]
    /\ writes = 0

GameNext ==
    \/ Construct
    \/ PlayQuit
    \/ PlayMove
    \/ PlayIgnore
    \/ PlayWonKey

GameSpec == GameInit /\ [][GameNext]_vars

(***************************************************************************)
(* Vocabulary of the properties.                                           *)
(***************************************************************************)
\* the positions of a rectangular grid
Positions(g) ==
    IF g = <<>> THEN {}
    ELSE { <<x, y>> : x \in 0 .. (Len(g[1]) - 1), y \in 0 .. (Len(g) - 1) }

\* position p of grid g is passable
Open(g, p) == ~g[p[2] + 1][p[1] + 1]

\* p and q are 4-adjacent
Adjacent(p, q) ==
    \/ p[1] = q[1] /\ (p[2] - q[2] = 1 \/ q[2] - p[2] = 1)
    \/ p[2] = q[2] /\ (p[1] - q[1] = 1 \/ q[1] - p[1] = 1)

\* the passable positions joined to those of seen by 4-adjacent passable
\* positions; frontier is the part of seen not yet expanded
RECURSIVE Flood(_, _, _)
Flood(g, seen, frontier) ==
    LET new == { q \in Positions(g) \ seen :
                   Open(g, q) /\ \E p \in frontier : Adjacent(p, q) }
    IN  IF new = {} THEN seen ELSE Flood(g, seen \cup new, new)

ReachableFrom(g, p) == IF Open(g, p) THEN Flood(g, {p}, {p}) ELSE {}

\* the outer border of a grid
Border(g) ==
    { p \in Positions(g) :
        \/ p[1] = 0 \/ p[1] = Len(g[1]) - 1
        \/ p[2] = 0 \/ p[2] = Len(g) - 1 }

\* the number of passable positions 4-adjacent to p
Degree(g, p) ==
    Cardinality({ q \in Positions(g) : Open(g, q) /\ Adjacent(p, q) })

UnitSteps == { <<0, -1>>, <<0, 1>>, <<-1, 0>>, <<1, 0>> }

\* the player positions a game can be brought to by move_player calls with
\* unit steps
RECURSIVE MoveClosure(_, _, _)
MoveClosure(g, seen, frontier) ==
    LET new == { <<r.game.player_x, r.game.player_y>> :
                   r \in { move_player([g EXCEPT !.player_x = p[1],
                                                 !.player_y = p[2]],
                                       d[1], d[2]) :
                           p \in frontier, d \in UnitSteps } } \ seen
    IN  IF new = {} THEN seen ELSE MoveClosure(g, seen \cup new, new)

Player(g) == <<g.player_x, g.player_y>>
End(g) == <<g.end_x, g.end_y>>

\* play() is running or has ended: there is a game
InGame == pc \in { "play", "won", "won_exit", "quit" }

\* the game is as constructed: no key has been processed
JustConstructed == pc = "play" /\ last = NoStep

\* the rows of column x of the game's grid that are passable
OpenRows(g, x) == { y \in 0 .. (g.height - 1) : Open(g.maze, <<x, y>>) }

Smallest(S) == CHOOSE y \in S : \A z \in S : y <= z
Largest(S) == CHOOSE y \in S : \A z \in S : z <= y

(***************************************************************************)
(* C1.  When generate() returns, every cell (odd coordinates inside the    *)
(* grid) is passable and joined to (1,1) by 4-adjacent passable positions. *)
(***************************************************************************)
C1_CellsConnected ==
    pc = "prompt" =>
        LET reach == ReachableFrom(maze_grid, <<1, 1>>)
        IN  \A p \in Cells(generator.width, generator.height) :
                Open(maze_grid, p) /\ p \in reach

\* a returned maze of 3 by 3 cells in which the walk backtracked and
\* branched: some cell has three passages
C1_Witness ==
    /\ pc = "prompt"
    /\ generator.width = 3
    /\ generator.height = 3
    /\ \E p \in Cells(3, 3) : Degree(maze_grid, p) >= 3

(***************************************************************************)
(* C2.  The generated maze is solvable: from the game constructed on a     *)
(* generated grid some sequence of unit-step move_player calls brings the  *)
(* player to the end position, where check_win() is true.                  *)
(***************************************************************************)
C2_Solvable ==
    JustConstructed =>
        \E p \in MoveClosure(game, {Player(game)}, {Player(game)}) :
            check_win([game EXCEPT !.player_x = p[1], !.player_y = p[2]])

\* the player has walked a maze of 3 by 3 cells to its end
C2_Witness ==
    /\ pc = "won"
    /\ generator.width = 3
    /\ generator.height = 3
    /\ last.ret
    /\ check_win(game)

(***************************************************************************)
(* C3.  While the walk runs no border position is passable; when           *)
(* generate() returns, a border position is passable iff it is the         *)
(* entrance (1, 0) or the exit (2*width-1, 2*height).                      *)
(***************************************************************************)
C3_Border ==
    /\ pc \in { "generate", "loop" } =>
         \A p \in Border(generator.grid) : ~Open(generator.grid, p)
    /\ pc = "prompt" =>
         \A p \in Border(maze_grid) :
            Open(maze_grid, p) <=>
              p \in { <<1, 0>>,
                      <<2 * generator.width - 1, 2 * generator.height>> }

\* a returned maze whose entrance and exit are in different columns
C3_Witness ==
    /\ pc = "prompt"
    /\ generator.width >= 2
    /\ Open(maze_grid, <<1, 0>>)
    /\ Open(maze_grid, <<2 * generator.width - 1, 2 * generator.height>>)

(***************************************************************************)
(* C4.  The generator's grid has 2*height+1 rows of 2*width+1 columns      *)
(* from construction on, through every step of generate(), and so has the  *)
(* grid generate() returns.                                                *)
(***************************************************************************)
C4_Dimensions ==
    /\ Len(generator.grid) = 2 * generator.height + 1
    /\ \A r \in 1 .. Len(generator.grid) :
         Len(generator.grid[r]) = 2 * generator.width + 1
    /\ pc = "prompt" =>
         /\ Len(maze_grid) = 2 * generator.height + 1
         /\ \A r \in 1 .. Len(maze_grid) :
              Len(maze_grid[r]) = 2 * generator.width + 1

\* generate() has returned a grid of 5 rows and 7 columns
C4_Witness ==
    /\ pc = "prompt"
    /\ generator.width = 3
    /\ generator.height = 2
    /\ Len(maze_grid) = 5
    /\ Len(maze_grid[1]) = 7

(***************************************************************************)
(* C5.  A move_player call with a unit step moves the player to the target *)
(* and returns True iff the target is inside the grid and passable;        *)
(* otherwise it returns False, the player stays, and nothing is raised.    *)
(***************************************************************************)
C5_MovePlayer ==
    [][ (pc = "play" /\ last'.moved) =>
          LET d == KeyStep(last'.key)
              target == <<game.player_x + d[1], game.player_y + d[2]>>
              ok == /\ target \in Positions(game.maze)
                    /\ Open(game.maze, target)
          IN  /\ d \in UnitSteps
              /\ pc' # "IndexError"
              /\ last'.ret = ok
              /\ Player(game') = IF ok THEN target ELSE Player(game)
      ]_vars

\* a move was rejected because its target is outside the grid
C5_Witness ==
    /\ pc = "play"
    /\ last.moved
    /\ ~last.ret
    /\ LET d == KeyStep(last.key)
       IN  <<game.player_x + d[1], game.player_y + d[2]>>
               \notin Positions(game.maze)

(***************************************************************************)
(* C6.  In every state of a game the player is inside the grid and on a    *)
(* passable position.                                                      *)
(***************************************************************************)
\* the claim as stated, for a game constructed from any grid
C6_PlayerOnPath_AnyGrid ==
    InGame =>
        /\ Player(game) \in Positions(game.maze)
        /\ Open(game.maze, Player(game))

\* for a game constructed from a grid whose column 1 has a passable
\* position
C6_PlayerOnPath ==
    (InGame /\ OpenRows(game, 1) # {}) =>
        /\ Player(game) \in Positions(game.maze)
        /\ Open(game.maze, Player(game))

\* the player has moved off the start position
C6_Witness ==
    /\ pc = "play"
    /\ last.ret
    /\ OpenRows(game, 1) # {}
    /\ Player(game) # Player(MazeGame(maze_grid))

(***************************************************************************)
(* C7.  The loop goes from Playing to Won only in a step that processes an *)
(* accepted move ending on the end position; a rejected move never results *)
(* in Won.                                                                 *)
(***************************************************************************)
\* the claim as stated, for a game constructed from any grid
C7_WonOnlyByMove_AnyGrid ==
    [][ /\ (LoopState = "Playing" /\ LoopState' = "Won") =>
              /\ last'.moved
              /\ last'.ret
              /\ Player(game') = End(game')
        /\ (LoopState = "Playing" /\ last'.moved /\ ~last'.ret) =>
              LoopState' # "Won"
      ]_vars

\* the start position the game derives from its grid is not its end position
StartIsNotEnd ==
    /\ ~ConstructRaises(maze_grid)
    /\ Player(MazeGame(maze_grid)) # End(MazeGame(maze_grid))

\* for a game whose start position is not its end position
C7_WonOnlyByMove ==
    [][ StartIsNotEnd =>
          /\ (LoopState = "Playing" /\ LoopState' = "Won") =>
                /\ last'.moved
                /\ last'.ret
                /\ Player(game') = End(game')
          /\ (LoopState = "Playing" /\ last'.moved /\ ~last'.ret) =>
                LoopState' # "Won"
      ]_vars

\* a game that did not start on its end position is won by an accepted move
C7_Witness ==
    /\ pc = "won"
    /\ StartIsNotEnd
    /\ last.moved
    /\ last.ret
    /\ Player(game) = End(game)

(***************************************************************************)
(* C8.  A quit key received while Playing moves the loop to Quit; Won and  *)
(* Quit are terminal: no later key is processed as a move and the player   *)
(* never moves again.                                                      *)
(***************************************************************************)
C8_QuitAndTerminal ==
    [][ /\ (LoopState = "Playing" /\ last'.key = "q") => LoopState' = "Quit"
        /\ LoopState \in { "Won", "Quit" } =>
              /\ LoopState' = LoopState
              /\ ~last'.moved
              /\ game' = game
      ]_vars

\* the loop was left by q with the player away from the start position
C8_WitnessQuit ==
    /\ pc = "quit"
    /\ last.key = "q"
    /\ Player(game) # Player(MazeGame(maze_grid))

(***************************************************************************)
(* C9.  A key that is neither q nor a move key (the None of no key         *)
(* included), received while Playing, leaves the player and the loop state *)
(* as they are: no move, no win check, the loop waits for the next key.    *)
(***************************************************************************)
C9_UnrecognizedIgnored ==
    [][ (LoopState = "Playing" /\ last'.key \notin ({ "q" } \cup MoveKeys)) =>
          /\ game' = game
          /\ pc' = "play"
          /\ ~last'.moved
          /\ ~last'.checked
      ]_vars

\* None was received while Playing
C9_Witness ==
    /\ pc = "play"
    /\ last.key = None
    /\ ~last.checked

(***************************************************************************)
(* C10.  Construction puts the start at (1, r), r the smallest row whose   *)
(* column-1 position is passable, or (1, 0) if there is none, and the end  *)
(* at (width-2, r'), r' the largest row whose column-(width-2) position is *)
(* passable, or (width-2, height-1) if there is none.                      *)
(***************************************************************************)
C10_StartAndEnd ==
    /\ JustConstructed =>
         Player(game) =
            <<1, IF OpenRows(game, 1) = {} THEN 0
                 ELSE Smallest(OpenRows(game, 1))>>
    /\ InGame =>
         End(game) =
            <<game.width - 2,
              IF OpenRows(game, game.width - 2) = {} THEN game.height - 1
              ELSE Largest(OpenRows(game, game.width - 2))>>

\* a game on a grid whose end column has an open row above a closed last
\* row, and whose start column has a closed first row
C10_Witness ==
    /\ JustConstructed
    /\ game.height >= 2
    /\ game.player_y > 0
    /\ game.end_y < game.height - 1
    /\ OpenRows(game, game.width - 2) # {}

(***************************************************************************)
(* C11.  check_win() is true iff the player is on the end position         *)
(* computed at construction, in every state of a game; the call of         *)
(* check_win in play() leaves the player, the end position and the grid    *)
(* as move_player left them.                                               *)
(***************************************************************************)
\* the end position MazeGame.__init__ computes from the grid it is given
ConstructedEnd == End(MazeGame(maze_grid))

C11_CheckWin ==
    [][ /\ InGame' =>
              /\ End(game') = ConstructedEnd
              /\ check_win(game') <=> (Player(game') = ConstructedEnd)
        /\ (pc = "play" /\ last'.checked) =>
              /\ (pc' = "won") <=> (Player(game') = ConstructedEnd)
              /\ game' = move_player(game, KeyStep(last'.key)[1],
                                     KeyStep(last'.key)[2]).game
      ]_vars

\* check_win was called with the player in the end column, on another row,
\* and returned false
C11_Witness ==
    /\ pc = "play"
    /\ last.checked
    /\ game.player_x = game.end_x
    /\ game.player_y # game.end_y

(***************************************************************************)
(* C17.  After construction no step of play() (a move accepted or          *)
(* rejected, the win check, the rendering, quit, an ignored key) changes   *)
(* the game's grid, its width and height, or the end position.             *)
(***************************************************************************)
C17_OnlyPlayerChanges ==
    [][ InGame =>
          /\ game'.maze = game.maze
          /\ game'.width = game.width
          /\ game'.height = game.height
          /\ End(game') = End(game)
      ]_vars

\* an accepted move has changed the player position
C17_Witness ==
    /\ InGame
    /\ last.moved
    /\ last.ret
    /\ Player(game) # Player(MazeGame(maze_grid))
    /\ game.maze = maze_grid

(***************************************************************************)
(* C18.  The game constructed from a generated grid starts on the entrance *)
(* (1, 0) and ends on the exit (2*width-1, 2*height), which is passable    *)
(* and differs from the start: the game does not begin won.                *)
(***************************************************************************)
C18_StartAndEndOfGenerated ==
    /\ JustConstructed =>
         /\ Player(game) = <<1, 0>>
         /\ Player(game) # End(game)
         /\ ~check_win(game)
    /\ InGame =>
         /\ End(game) = <<2 * generator.width - 1, 2 * generator.height>>
         /\ Open(game.maze, End(game))

\* a game just constructed on the grid of a generator of one cell: entrance
\* and exit share the column
C18_Witness ==
    /\ JustConstructed
    /\ generator.width = 1
    /\ generator.height = 1
    /\ game.player_x = game.end_x

(***************************************************************************)
(* C19.  At every iteration of the generation loop: the cells on the stack *)
(* have odd coordinates, are visited and passable; no cell is on the stack *)
(* twice; the stack, when not empty, starts at (1,1) and consecutive       *)
(* entries are two steps apart with the position halfway passable; the     *)
(* visited set is the set of passable odd-coordinate cells; and a passable *)
(* position never becomes a wall again.                                    *)
(***************************************************************************)
\* the position halfway between two positions two steps apart
Halfway(p, q) == <<(p[1] + q[1]) \div 2, (p[2] + q[2]) \div 2>>

TwoApart(p, q) ==
    \/ p[1] = q[1] /\ (p[2] - q[2] = 2 \/ q[2] - p[2] = 2)
    \/ p[2] = q[2] /\ (p[1] - q[1] = 2 \/ q[1] - p[1] = 2)

LoopInvariant ==
    LET g == generator.grid
        cells == Cells(generator.width, generator.height)
    IN  /\ \A i \in 1 .. Len(stack) :
              /\ stack[i] \in cells
              /\ stack[i] \in visited
              /\ Open(g, stack[i])
        /\ \A i, j \in 1 .. Len(stack) : stack[i] = stack[j] => i = j
        /\ stack # <<>> => stack[1] = <<1, 1>>
        /\ \A i \in 1 .. (Len(stack) - 1) :
              /\ TwoApart(stack[i], stack[i + 1])
              /\ Open(g, Halfway(stack[i], stack[i + 1]))
        /\ visited = { p \in cells : Open(g, p) }

C19_LoopInvariant ==
    [][ /\ pc' = "loop" => LoopInvariant'
        /\ \A p \in Positions(generator.grid) :
              Open(generator.grid, p) => Open(generator.grid', p)
      ]_vars

\* the walk has backtracked onto a cell below the top of an earlier, longer
\* stack: cells are visited that are no longer on the stack
C19_Witness ==
    /\ pc = "loop"
    /\ Len(stack) >= 2
    /\ Cardinality(visited) > Len(stack) + 1
    /\ Neighbors(generator.grid, stack[Len(stack)][1], stack[Len(stack)][2],
                 visited) # {}

(***************************************************************************)
(* C16.  The carved passages form a spanning tree over the cells.  During  *)
(* the walk the passable positions that are not cells are one fewer than   *)
(* the visited cells, each lies halfway between two 4-neighbouring cells,  *)
(* every position with both coordinates even is a wall, and the passable   *)
(* positions contain no cycle; when the walk ends there are                *)
(* width*height - 1 of them.  generate() on one cell returns exactly       *)
(* (1,1), (1,0) and (1,2) passable.                                        *)
(***************************************************************************)
OpenPositions(g) == { p \in Positions(g) : Open(g, p) }

\* the passable positions that are not cells
OpenSlots(g, cells) == OpenPositions(g) \ cells

\* what is left of a set of positions when positions with at most one
\* 4-adjacent position in the set are removed again and again: empty iff
\* the set has no cycle
RECURSIVE Core(_)
Core(S) ==
    LET leaves == { p \in S :
                      Cardinality({ q \in S : Adjacent(p, q) }) <= 1 }
    IN  IF leaves = {} THEN S ELSE Core(S \ leaves)

C16_SpanningTree ==
    LET g == generator.grid
        cells == Cells(generator.width, generator.height)
    IN  /\ pc = "loop" =>
              /\ Cardinality(OpenSlots(g, cells)) = Cardinality(visited) - 1
              /\ \A s \in OpenSlots(g, cells) :
                    \E p, q \in cells :
                        TwoApart(p, q) /\ Halfway(p, q) = s
              /\ \A p \in Positions(g) :
                    (p[1] % 2 = 0 /\ p[2] % 2 = 0) => ~Open(g, p)
              /\ Core(OpenPositions(g)) = {}
        /\ (pc = "loop" /\ stack = <<>>) =>
              Cardinality(OpenSlots(g, cells)) =
                 generator.width * generator.height - 1
        /\ (pc = "prompt" /\ generator.width = 1 /\ generator.height = 1) =>
              OpenPositions(maze_grid) = { <<1, 1>>, <<1, 0>>, <<1, 2>> }

\* the walk over 3 by 3 cells has ended with 8 passages carved
C16_Witness ==
    /\ pc = "loop"
    /\ stack = <<>>
    /\ generator.width = 3
    /\ generator.height = 3
    /\ Cardinality(OpenSlots(generator.grid, Cells(3, 3))) = 8

(***************************************************************************)
(* C13.  On a generator with width <= 0 or height <= 0, generate() ends in *)
(* an error and returns no grid.                                           *)
(***************************************************************************)
C13_BadSizeRaises ==
    (generator.width <= 0 \/ generator.height <= 0) =>
        /\ pc \in { "generate", "IndexError" }
        /\ maze_grid = <<>>
        /\ game = NoGame
        /\ pc = "generate" => ~CanIndex(generator.grid, 1, 1)

\* generate() has raised on a generator of width 0 and height 2, whose grid
\* has 5 rows of one column
C13_Witness ==
    /\ pc = "IndexError"
    /\ generator.width = 0
    /\ generator.height = 2
    /\ Len(generator.grid) = 5
    /\ Len(generator.grid[1]) = 1

(***************************************************************************)
(* C14.  The rendering of the game shows, row by row from the top, one     *)
(* glyph per column: 'o' at the player's position and nowhere else, and at *)
(* every other position the glyph to_string() gives it, '*' for a wall and *)
(* ' ' for a passable position; the rendering step leaves the game as      *)
(* move_player left it.                                                    *)
(***************************************************************************)
\* the glyph to_string gives position <<x, y>> of a grid with width columns
GlyphOf(text, width, x, y) == text[y * (width + 1) + x + 1]

ScreenShows(scr, g) ==
    LET text == to_string(g.maze)
    IN  /\ Len(scr) >= g.height + 2
        /\ scr[1] = <<"start">>
        /\ scr[g.height + 2] = <<"end">>
        /\ Len(text) = g.height * (g.width + 1) - 1
        /\ \A y \in 0 .. (g.height - 1) :
              /\ Len(scr[y + 2]) = g.width
              /\ \A x \in 0 .. (g.width - 1) :
                    /\ GlyphOf(text, g.width, x, y) =
                          IF g.maze[y + 1][x + 1] THEN "*" ELSE " "
                    /\ scr[y + 2][x + 1] =
                          IF <<x, y>> = Player(g) THEN "o"
                          ELSE GlyphOf(text, g.width, x, y)

C14_Render ==
    [][ /\ InGame' => ScreenShows(screen', game')
        /\ (pc = "play" /\ last'.checked) =>
              game' = move_player(game, KeyStep(last'.key)[1],
                                  KeyStep(last'.key)[2]).game
        /\ (InGame /\ screen' # screen) => game'.maze = game.maze
      ]_vars

\* the player is shown on a wall: the start fell back to (1, 0)
C14_Witness ==
    /\ pc = "play"
    /\ game.height >= 2
    /\ game.maze[Player(game)[2] + 1][Player(game)[1] + 1]
    /\ screen[Player(game)[2] + 2][Player(game)[1] + 1] = "o"

(***************************************************************************)
(* C15.  generate() terminates: it returns, with the stack empty, after at *)
(* most 2*width*height iterations of its loop, and no cell is pushed more  *)
(* than once or popped more than once.                                     *)
(***************************************************************************)
C15_Terminates ==
    /\ <>(pc = "prompt" /\ stack = <<>>)
    /\ [](/\ work.iterations <= 2 * generator.width * generator.height
          /\ \A c \in Cells(generator.width, generator.height) :
                /\ work.pushed[c] <= 1
                /\ work.popped[c] <= 1
                /\ work.popped[c] <= work.pushed[c])

\* generate() has returned from a walk over 3 by 3 cells in 17 iterations,
\* every cell pushed once and popped once
C15_Witness ==
    /\ pc = "prompt"
    /\ generator.width = 3
    /\ generator.height = 3
    /\ work.iterations = 17
    /\ \A c \in Cells(3, 3) : work.pushed[c] = 1 /\ work.popped[c] = 1

(***************************************************************************)
(* C12: MazeGame holds a private copy of the grid it is constructed from:  *)
(* the constructed game's maze has the content of that grid, and afterwards*)
(* no write to a position of the game's maze changes the generator's grid  *)
(* (nor maze_grid), and no write to the generator's grid, a later          *)
(* generate() call's included, changes the game's maze.                    *)
(***************************************************************************)
C12_PrivateCopy ==
    [][/\ (pc = "prompt" /\ pc' = "play") => game'.maze = maze_grid
       /\ (game # NoGame /\ game' # NoGame /\ game'.maze # game.maze)
             => (generator'.grid = generator.grid /\ maze_grid' = maze_grid)
       /\ (game # NoGame /\ game' # NoGame
             /\ generator'.grid # generator.grid)
             => game'.maze = game.maze]_vars

\* a later generate() call is carving the generator's grid, which the game
\* was constructed from, and the game's maze is as constructed
C12_Witness ==
    /\ game # NoGame
    /\ pc = "loop"
    /\ writes = 1
    /\ generator.grid # game.maze
    /\ maze_grid = generator.grid
    /\ game.maze = MazeGame(game.maze).maze
    /\ \A p \in Positions(game.maze) :
          Open(generator.grid, p) \/ ~Open(game.maze, p)

====
